---- MODULE Spec2Model ----
(***************************************************************************)
(* The request pipeline of the Auto Backend API (src/src/index.ts): the    *)
(* route table, the zod schema that gates POST /generate, the prompt that  *)
(* embeds the validated specification, the single awaited generateObject   *)
(* call and the response envelopes.                                        *)
(***************************************************************************)
EXTENDS Integers, Sequences, FiniteSets, TLC

\* ------------------------------------------------------------------ bounds
\* Request handlers that may be in flight at once in ConcSpec.
NumRequests == 2
\* Largest number of files in a generated project.
MaxFiles == 2

\* -------------------------------------------------------------- JSON values
\* A JSON value is a record [t, v]: t is the type zod's getParsedType sees,
\* v the payload. Strings are sequences of characters, objects are sequences
\* of <<key, value>> pairs in property order with each key a sequence of
\* characters, arrays are sequences of values. A character is written as
\* itself; one that has no literal here (a control character below U+0020
\* other than tab, line feed, form feed and carriage return, or a lone
\* surrogate) is written by its name uXXXX, the code unit in four lowercase
\* hexadecimal digits.
JStr(chars) == [t |-> "string", v |-> chars]
JNum(n) == [t |-> "number", v |-> n]
JBool(b) == [t |-> "boolean", v |-> b]
JNull == [t |-> "null", v |-> <<>>]
JArr(items) == [t |-> "array", v |-> items]
JObj(pairs) == [t |-> "object", v |-> pairs]
\* What reading a property that is not there gives.
Undefined == [t |-> "undefined", v |-> <<>>]

\* Object.keys(o): the object's own keys in property order.
ObjectKeys(o) == [i \in 1..Len(o.v) |-> o.v[i][1]]

\* key in o
HasKey(o, k) == o.t = "object" /\ \E i \in 1..Len(o.v) : o.v[i][1] = k

\* o[k]: the value under k, undefined when o has no such property.
Get(o, k) ==
  IF HasKey(o, k)
  THEN o.v[CHOOSE i \in 1..Len(o.v) : o.v[i][1] = k][2]
  ELSE Undefined

\* The property names the schema and the error format use.
openapiKey == <<"o", "p", "e", "n", "a", "p", "i">>
infoKey == <<"i", "n", "f", "o">>
titleKey == <<"t", "i", "t", "l", "e">>
versionKey == <<"v", "e", "r", "s", "i", "o", "n">>
pathsKey == <<"p", "a", "t", "h", "s">>
componentsKey == <<"c", "o", "m", "p", "o", "n", "e", "n", "t", "s">>
schemasKey == <<"s", "c", "h", "e", "m", "a", "s">>
errorsKey == <<"_", "e", "r", "r", "o", "r", "s">>
\* The key zod's mergeObject leaves out of every object it builds.
protoKey == <<"_", "_", "p", "r", "o", "t", "o", "_", "_">>

Digits == {"0", "1", "2", "3", "4", "5", "6", "7", "8", "9"}

AllDigits(s, from, to) == from <= to /\ \A i \in from..to : s[i] \in Digits

\* /^3\.\d+\.\d+$/.test(s)
VersionRegex(s) ==
  /\ Len(s) >= 5
  /\ s[1] = "3"
  /\ s[2] = "."
  /\ \E dot \in 4..(Len(s) - 1) :
       /\ s[dot] = "."
       /\ AllDigits(s, 3, dot - 1)
       /\ AllDigits(s, dot + 1, Len(s))

\* ------------------------------------------------------------ zod schema
\* A parse result is [ok, data, issues]; an issue is [path, message] with the
\* path relative to the value parsed.
Valid(data) == [ok |-> TRUE, data |-> data, issues |-> <<>>]
Invalid(msg) == [ok |-> FALSE, data |-> Undefined, issues |-> <<[path |-> <<>>, message |-> msg]>>]

\* zod's invalid_type message.
InvalidType(expected, val) ==
  IF val.t = "undefined"
  THEN Invalid("Required")
  ELSE Invalid("Expected " \o expected \o ", received " \o val.t)

\* z.string()
ZString(val) == IF val.t = "string" THEN Valid(val) ELSE InvalidType("string", val)

\* Variant: the pattern is not applied.
ZOpenapiNoRegex(val) == ZString(val)
\* z.string().regex(/^3\.\d+\.\d+$/, 'Must be OpenAPI 3.x.x')
ZOpenapi(val) ==
  IF val.t # "string" THEN InvalidType("string", val)
  ELSE IF VersionRegex(val.v) THEN Valid(val)
  ELSE Invalid("Must be OpenAPI 3.x.x")

\* Variant: a record with no keys is refused.
ZRecordNonEmpty(val) ==
  IF val.t = "object" /\ Len(val.v) > 0
  THEN Valid(JObj(SelectSeq(val.v, LAMBDA kv : kv[1] # protoKey)))
  ELSE InvalidType("object", val)
\* z.record(z.any()): any object. The output is a new object with the input's
\* properties in order, each value as it is, except that a key named
\* __proto__ is left out (ParseStatus.mergeObject).
ZRecord(val) ==
  IF val.t = "object"
  THEN Valid(JObj(SelectSeq(val.v, LAMBDA kv : kv[1] # protoKey)))
  ELSE InvalidType("object", val)

\* schema.optional(): undefined is accepted and stays undefined.
Optional(val, parsed) == IF val.t = "undefined" THEN Valid(Undefined) ELSE parsed

\* The issues of a property's parse, their paths prefixed with the key.
Prefixed(key, issues) ==
  [i \in 1..Len(issues) |-> [path |-> <<key>> \o issues[i].path, message |-> issues[i].message]]

\* z.object(shape) on an object value, given the parse of every shape key in
\* shape order as <<key, result>>: every key is checked (no short circuit),
\* the output holds the shape's keys in shape order, keys outside the shape
\* are stripped, and a key whose output is undefined is left out.
RECURSIVE ObjectIssues(_, _)
ObjectIssues(fields, i) ==
  IF i > Len(fields) THEN <<>>
  ELSE Prefixed(fields[i][1], fields[i][2].issues) \o ObjectIssues(fields, i + 1)

RECURSIVE ObjectData(_, _)
ObjectData(fields, i) ==
  IF i > Len(fields) THEN <<>>
  ELSE (IF fields[i][2].data.t = "undefined" THEN <<>> ELSE <<<<fields[i][1], fields[i][2].data>>>>)
       \o ObjectData(fields, i + 1)

ZObject(val, fields) ==
  IF val.t # "object" THEN InvalidType("object", val)
  ELSE IF ObjectIssues(fields, 1) # <<>>
       THEN [ok |-> FALSE, data |-> Undefined, issues |-> ObjectIssues(fields, 1)]
       ELSE Valid(JObj(ObjectData(fields, 1)))

\* info: z.object({ title: z.string(), version: z.string() })
ZInfo(val) ==
  ZObject(val, << <<titleKey, ZString(Get(val, titleKey))>>,
                  <<versionKey, ZString(Get(val, versionKey))>> >>)

\* components: z.object({ schemas: z.record(z.any()).optional() }).optional()
ZComponents(val) ==
  Optional(val,
    ZObject(val, << <<schemasKey, Optional(Get(val, schemasKey), ZRecord(Get(val, schemasKey)))>> >>))

\* openApiSchema.safeParse(body)
openApiSchema(body) ==
  ZObject(body, << <<openapiKey, ZOpenapi(Get(body, openapiKey))>>,
                   <<infoKey, ZInfo(Get(body, infoKey))>>,
                   <<pathsKey, ZRecord(Get(body, pathsKey))>>,
                   <<componentsKey, ZComponents(Get(body, componentsKey))>> >>)

\* The elements of s, each once, in the order of their first occurrence.
RECURSIVE FirstOccurrences(_)
FirstOccurrences(s) ==
  IF s = <<>> THEN <<>>
  ELSE <<Head(s)>> \o FirstOccurrences(SelectSeq(Tail(s), LAMBDA x : x # Head(s)))

\* validation.error.format(): the tree of the issues, as the object it
\* builds. Each node holds under _errors the messages of the issues that end
\* at it (each message kept as one string) and one child per next path
\* element, in the order the issues first name it.
RECURSIVE ZodFormat(_)
ZodFormat(issues) ==
  LET here == SelectSeq(issues, LAMBDA x : x.path = <<>>)
      below == SelectSeq(issues, LAMBDA x : x.path # <<>>)
      heads == FirstOccurrences([i \in 1..Len(below) |-> below[i].path[1]])
      under(k) == LET mine == SelectSeq(below, LAMBDA x : x.path[1] = k)
                  IN [i \in 1..Len(mine) |-> [path |-> Tail(mine[i].path), message |-> mine[i].message]]
  IN JObj(<< <<errorsKey, [i \in 1..Len(here) |-> here[i].message]>> >>
          \o [i \in 1..Len(heads) |-> <<heads[i], ZodFormat(under(heads[i]))>>])

\* -------------------------------------------------------- JSON.stringify
\* JSON.stringify(value, null, 2), as the sequence of the text's pieces.
Indent(depth) == [i \in 1..depth |-> "  "]

\* JSON.stringify's escape of one character: the quote, the backslash, the
\* control characters below U+0020 (the short escapes \b \t \n \f \r, \u00xx
\* for the others) and a lone surrogate (\udxxx); any other character is
\* written as it is.
EscapeChar(c) ==
  CASE c = "\"" -> "\\\""
    [] c = "\\" -> "\\\\"
    [] c = "u0008" -> "\\b"
    [] c \in {"\t", "u0009"} -> "\\t"
    [] c \in {"\n", "u000a"} -> "\\n"
    [] c \in {"\f", "u000c"} -> "\\f"
    [] c \in {"\r", "u000d"} -> "\\r"
    [] Len(c) = 5 /\ c \notin {"u0008", "u0009", "u000a", "u000c", "u000d"} -> "\\" \o c
    [] OTHER -> c

\* A string or a property name as JSON.stringify writes it.
Quote(chars) == <<"\"">> \o [i \in 1..Len(chars) |-> EscapeChar(chars[i])] \o <<"\"">>

RECURSIVE Stringify(_, _)
RECURSIVE StringifyMembers(_, _, _)
RECURSIVE StringifyItems(_, _, _)

StringifyMembers(pairs, depth, i) ==
  IF i > Len(pairs) THEN <<>>
  ELSE Indent(depth) \o Quote(pairs[i][1]) \o <<": ">> \o Stringify(pairs[i][2], depth)
       \o (IF i < Len(pairs) THEN <<",", "\n">> ELSE <<"\n">>)
       \o StringifyMembers(pairs, depth, i + 1)

StringifyItems(items, depth, i) ==
  IF i > Len(items) THEN <<>>
  ELSE Indent(depth) \o Stringify(items[i], depth)
       \o (IF i < Len(items) THEN <<",", "\n">> ELSE <<"\n">>)
       \o StringifyItems(items, depth, i + 1)

Stringify(val, depth) ==
  CASE val.t = "string" -> Quote(val.v)
    [] val.t = "number" -> <<ToString(val.v)>>
    [] val.t = "boolean" -> <<IF val.v THEN "true" ELSE "false">>
    [] val.t = "null" -> <<"null">>
    [] val.t = "array" ->
         IF val.v = <<>> THEN <<"[]">>
         ELSE <<"[", "\n">> \o StringifyItems(val.v, depth + 1, 1) \o Indent(depth) \o <<"]">>
    [] val.t = "object" ->
         IF val.v = <<>> THEN <<"{}">>
         ELSE <<"{", "\n">> \o StringifyMembers(val.v, depth + 1, 1) \o Indent(depth) \o <<"}">>

\* The user prompt of the generateObject call.
UserPrompt(openapiSpec) ==
  <<"Generate a complete Hono.js project for this OpenAPI specification:", "\n", "\n">>
    \o Stringify(openapiSpec, 0)

\* The specification a user prompt embeds: the text after the directive.
EmbeddedSpec(prompt) == SubSeq(prompt, 4, Len(prompt))
sampleSpec ==
  JObj(<<
    <<<<"o", "p", "e", "n", "a", "p", "i">>, JStr(<<"3", ".", "0", ".", "0">>)>>,
    <<<<"i", "n", "f", "o">>, JObj(<<
      <<<<"t", "i", "t", "l", "e">>, JStr(<<"S", "a", "m", "p", "l", "e", " ", "B", "l", "o", "g", " ", "A", "P", "I">>)>>,
      <<<<"v", "e", "r", "s", "i", "o", "n">>, JStr(<<"1", ".", "0", ".", "0">>)>>,
      <<<<"d", "e", "s", "c", "r", "i", "p", "t", "i", "o", "n">>, JStr(<<"A", " ", "s", "i", "m", "p", "l", "e", " ", "b", "l", "o", "g", " ", "A", "P", "I", " ", "f", "o", "r", " ", "t", "e", "s", "t", "i", "n", "g">>)>>>>)>>,
    <<<<"p", "a", "t", "h", "s">>, JObj(<<
      <<<<"/", "p", "o", "s", "t", "s">>, JObj(<<
        <<<<"g", "e", "t">>, JObj(<<
          <<<<"s", "u", "m", "m", "a", "r", "y">>, JStr(<<"G", "e", "t", " ", "a", "l", "l", " ", "p", "o", "s", "t", "s">>)>>,
          <<<<"r", "e", "s", "p", "o", "n", "s", "e", "s">>, JObj(<<
            <<<<"2", "0", "0">>, JObj(<<
              <<<<"d", "e", "s", "c", "r", "i", "p", "t", "i", "o", "n">>, JStr(<<"L", "i", "s", "t", " ", "o", "f", " ", "p", "o", "s", "t", "s">>)>>,
              <<<<"c", "o", "n", "t", "e", "n", "t">>, JObj(<<
                <<<<"a", "p", "p", "l", "i", "c", "a", "t", "i", "o", "n", "/", "j", "s", "o", "n">>, JObj(<<
                  <<<<"s", "c", "h", "e", "m", "a">>, JObj(<<
                    <<<<"t", "y", "p", "e">>, JStr(<<"a", "r", "r", "a", "y">>)>>,
                    <<<<"i", "t", "e", "m", "s">>, JObj(<<
                      <<<<"$", "r", "e", "f">>, JStr(<<"#", "/", "c", "o", "m", "p", "o", "n", "e", "n", "t", "s", "/", "s", "c", "h", "e", "m", "a", "s", "/", "P", "o", "s", "t">>)>>>>)>>>>)>>>>)>>>>)>>>>)>>>>)>>>>)>>,
        <<<<"p", "o", "s", "t">>, JObj(<<
          <<<<"s", "u", "m", "m", "a", "r", "y">>, JStr(<<"C", "r", "e", "a", "t", "e", " ", "a", " ", "n", "e", "w", " ", "p", "o", "s", "t">>)>>,
          <<<<"r", "e", "q", "u", "e", "s", "t", "B", "o", "d", "y">>, JObj(<<
            <<<<"c", "o", "n", "t", "e", "n", "t">>, JObj(<<
              <<<<"a", "p", "p", "l", "i", "c", "a", "t", "i", "o", "n", "/", "j", "s", "o", "n">>, JObj(<<
                <<<<"s", "c", "h", "e", "m", "a">>, JObj(<<
                  <<<<"$", "r", "e", "f">>, JStr(<<"#", "/", "c", "o", "m", "p", "o", "n", "e", "n", "t", "s", "/", "s", "c", "h", "e", "m", "a", "s", "/", "C", "r", "e", "a", "t", "e", "P", "o", "s", "t">>)>>>>)>>>>)>>>>)>>>>)>>,
          <<<<"r", "e", "s", "p", "o", "n", "s", "e", "s">>, JObj(<<
            <<<<"2", "0", "1">>, JObj(<<
              <<<<"d", "e", "s", "c", "r", "i", "p", "t", "i", "o", "n">>, JStr(<<"P", "o", "s", "t", " ", "c", "r", "e", "a", "t", "e", "d">>)>>,
              <<<<"c", "o", "n", "t", "e", "n", "t">>, JObj(<<
                <<<<"a", "p", "p", "l", "i", "c", "a", "t", "i", "o", "n", "/", "j", "s", "o", "n">>, JObj(<<
                  <<<<"s", "c", "h", "e", "m", "a">>, JObj(<<
                    <<<<"$", "r", "e", "f">>, JStr(<<"#", "/", "c", "o", "m", "p", "o", "n", "e", "n", "t", "s", "/", "s", "c", "h", "e", "m", "a", "s", "/", "P", "o", "s", "t">>)>>>>)>>>>)>>>>)>>>>)>>>>)>>>>)>>>>)>>,
      <<<<"/", "p", "o", "s", "t", "s", "/", "{", "i", "d", "}">>, JObj(<<
        <<<<"g", "e", "t">>, JObj(<<
          <<<<"s", "u", "m", "m", "a", "r", "y">>, JStr(<<"G", "e", "t", " ", "p", "o", "s", "t", " ", "b", "y", " ", "I", "D">>)>>,
          <<<<"p", "a", "r", "a", "m", "e", "t", "e", "r", "s">>, JArr(<<
            JObj(<<
              <<<<"n", "a", "m", "e">>, JStr(<<"i", "d">>)>>,
              <<<<"i", "n">>, JStr(<<"p", "a", "t", "h">>)>>,
              <<<<"r", "e", "q", "u", "i", "r", "e", "d">>, JBool(TRUE)>>,
              <<<<"s", "c", "h", "e", "m", "a">>, JObj(<<
                <<<<"t", "y", "p", "e">>, JStr(<<"s", "t", "r", "i", "n", "g">>)>>>>)>>>>)>>)>>,
          <<<<"r", "e", "s", "p", "o", "n", "s", "e", "s">>, JObj(<<
            <<<<"2", "0", "0">>, JObj(<<
              <<<<"d", "e", "s", "c", "r", "i", "p", "t", "i", "o", "n">>, JStr(<<"P", "o", "s", "t", " ", "d", "e", "t", "a", "i", "l", "s">>)>>,
              <<<<"c", "o", "n", "t", "e", "n", "t">>, JObj(<<
                <<<<"a", "p", "p", "l", "i", "c", "a", "t", "i", "o", "n", "/", "j", "s", "o", "n">>, JObj(<<
                  <<<<"s", "c", "h", "e", "m", "a">>, JObj(<<
                    <<<<"$", "r", "e", "f">>, JStr(<<"#", "/", "c", "o", "m", "p", "o", "n", "e", "n", "t", "s", "/", "s", "c", "h", "e", "m", "a", "s", "/", "P", "o", "s", "t">>)>>>>)>>>>)>>>>)>>>>)>>>>)>>>>)>>>>)>>>>)>>,
    <<<<"c", "o", "m", "p", "o", "n", "e", "n", "t", "s">>, JObj(<<
      <<<<"s", "c", "h", "e", "m", "a", "s">>, JObj(<<
        <<<<"P", "o", "s", "t">>, JObj(<<
          <<<<"t", "y", "p", "e">>, JStr(<<"o", "b", "j", "e", "c", "t">>)>>,
          <<<<"p", "r", "o", "p", "e", "r", "t", "i", "e", "s">>, JObj(<<
            <<<<"i", "d">>, JObj(<<
              <<<<"t", "y", "p", "e">>, JStr(<<"s", "t", "r", "i", "n", "g">>)>>>>)>>,
            <<<<"t", "i", "t", "l", "e">>, JObj(<<
              <<<<"t", "y", "p", "e">>, JStr(<<"s", "t", "r", "i", "n", "g">>)>>>>)>>,
            <<<<"c", "o", "n", "t", "e", "n", "t">>, JObj(<<
              <<<<"t", "y", "p", "e">>, JStr(<<"s", "t", "r", "i", "n", "g">>)>>>>)>>,
            <<<<"a", "u", "t", "h", "o", "r">>, JObj(<<
              <<<<"t", "y", "p", "e">>, JStr(<<"s", "t", "r", "i", "n", "g">>)>>>>)>>,
            <<<<"c", "r", "e", "a", "t", "e", "d", "A", "t">>, JObj(<<
              <<<<"t", "y", "p", "e">>, JStr(<<"s", "t", "r", "i", "n", "g">>)>>,
              <<<<"f", "o", "r", "m", "a", "t">>, JStr(<<"d", "a", "t", "e", "-", "t", "i", "m", "e">>)>>>>)>>>>)>>>>)>>,
        <<<<"C", "r", "e", "a", "t", "e", "P", "o", "s", "t">>, JObj(<<
          <<<<"t", "y", "p", "e">>, JStr(<<"o", "b", "j", "e", "c", "t">>)>>,
          <<<<"r", "e", "q", "u", "i", "r", "e", "d">>, JArr(<<
            JStr(<<"t", "i", "t", "l", "e">>),
            JStr(<<"c", "o", "n", "t", "e", "n", "t">>),
            JStr(<<"a", "u", "t", "h", "o", "r">>)>>)>>,
          <<<<"p", "r", "o", "p", "e", "r", "t", "i", "e", "s">>, JObj(<<
            <<<<"t", "i", "t", "l", "e">>, JObj(<<
              <<<<"t", "y", "p", "e">>, JStr(<<"s", "t", "r", "i", "n", "g">>)>>>>)>>,
            <<<<"c", "o", "n", "t", "e", "n", "t">>, JObj(<<
              <<<<"t", "y", "p", "e">>, JStr(<<"s", "t", "r", "i", "n", "g">>)>>>>)>>,
            <<<<"a", "u", "t", "h", "o", "r">>, JObj(<<
              <<<<"t", "y", "p", "e">>, JStr(<<"s", "t", "r", "i", "n", "g">>)>>>>)>>>>)>>>>)>>>>)>>>>)>>>>)

\* ------------------------------------------------------------ HTTP layer
\* env.NODE_ENV when the process environment sets none.
NODE_ENV == "development"

\* new Date().toISOString(): a date-time in the ISO 8601 format.
toISOString == "YYYY-MM-DDTHH:mm:ss.sssZ"

\* c.json(body, status)
Json(body, status) == [status |-> status, body |-> body]

\* A request that has no response yet.
NoResponse == [status |-> 0, body |-> [none |-> TRUE]]

\* What a handler ends with: a response it returned, or a value it threw.
\* A thrown value is [isError, message]: an Error with its message, or a
\* value that is no Error.
Error(message) == [isError |-> TRUE, message |-> message]
NonError == [isError |-> FALSE, message |-> ""]
Returned(response) == [thrown |-> FALSE, response |-> response, err |-> NonError]
Thrown(err) == [thrown |-> TRUE, response |-> NoResponse, err |-> err]

\* app.notFound
notFound == Json([error |-> "Route not found"], 404)

\* app.onError
onError(err) ==
  Json([error |-> "Internal server error", message |-> err.message, timestamp |-> toISOString], 500)

\* The routes the application registers, as <<method, path>>.
Routes ==
  { <<"GET", "/">>, <<"GET", "/health">>, <<"POST", "/generate">>, <<"GET", "/sample-spec">> }

\* The handlers of the GET routes, which answer at once.
GetHandler(path) ==
  CASE path = "/" -> Returned(Json([message |-> "Welcome to the Auto Backend API"], 200))
    [] path = "/health" ->
         Returned(Json([status |-> "healthy", timestamp |-> toISOString, environment |-> NODE_ENV], 200))
    [] path = "/sample-spec" -> Returned(Json(sampleSpec, 200))

\* Hono's dispatch of a handler's result: a returned response is sent, a
\* thrown Error goes to app.onError, any other thrown value is thrown on to
\* the server underneath.
Escaped == [status |-> -1, body |-> [none |-> TRUE]]
Dispatch(result) ==
  IF ~result.thrown THEN result.response
  ELSE IF result.err.isError THEN onError(result.err)
  ELSE Escaped

\* Variant: the catch block throws the value on.
CatchBlockRethrow(err) == Thrown(err)
\* Variant: the catch block answers with an empty project.
CatchBlockEmptyProject(err) ==
  Returned(Json([success |-> FALSE, error |-> "Code generation failed", files |-> JObj(<<>>)], 200))
\* The catch block of the /generate handler.
CatchBlock(err) ==
  IF err.isError
  THEN Returned(Json([error |-> "Code generation failed", message |-> err.message,
                      timestamp |-> toISOString], 500))
  ELSE Returned(Json([error |-> "Unknown error occurred during code generation",
                      timestamp |-> toISOString], 500))

\* The 400 answer to a document the schema rejects.
InvalidSpecResponse(validation) ==
  Json([error |-> "Invalid OpenAPI specification", details |-> ZodFormat(validation.issues)], 400)

\* Variant: metadata.files lists the keys last to first.
SuccessResponseFilesReversed(openapiSpec, generatedFiles) ==
  LET keys == ObjectKeys(generatedFiles)
  IN Json([success |-> TRUE,
           metadata |-> [apiTitle |-> Get(Get(openapiSpec, infoKey), titleKey),
                         apiVersion |-> Get(Get(openapiSpec, infoKey), versionKey),
                         generatedAt |-> toISOString,
                         fileCount |-> Len(keys),
                         files |-> [i \in 1..Len(keys) |-> keys[Len(keys) + 1 - i]]],
           files |-> generatedFiles], 200)
\* The success envelope built from the validated specification and the
\* object generateObject resolved with.
SuccessResponse(openapiSpec, generatedFiles) ==
  Json([success |-> TRUE,
        metadata |-> [apiTitle |-> Get(Get(openapiSpec, infoKey), titleKey),
                      apiVersion |-> Get(Get(openapiSpec, infoKey), versionKey),
                      generatedAt |-> toISOString,
                      fileCount |-> Len(ObjectKeys(generatedFiles)),
                      files |-> ObjectKeys(generatedFiles)],
        files |-> generatedFiles], 200)

\* ------------------------------------------------------------- inputs
Chars3_0_0 == <<"3", ".", "0", ".", "0">>

\* The values a document may carry under openapi (Undefined: no such key).
OpenapiValues ==
  { Undefined,
    JStr(Chars3_0_0),
    JStr(<<"3", ".", "1", ".", "1", "0">>),
    JStr(<<"2", ".", "0">>),
    JStr(<<"4", ".", "0", ".", "0">>),
    JStr(<<"3", ".", "0">>),
    JStr(<<"3", ".", "0", ".", "0", "a">>),
    JNum(3) }

InfoValues ==
  { Undefined,
    JObj(<< <<titleKey, JStr(<<"B", "l", "o", "g">>)>>, <<versionKey, JStr(<<"1", ".", "0", ".", "0">>)>> >>),
    JObj(<< <<titleKey, JStr(<<"X">>)>>, <<versionKey, JStr(<<"1">>)>>,
            <<<<"d", "e", "s", "c", "r", "i", "p", "t", "i", "o", "n">>, JStr(<<"d">>)>> >>),
    JObj(<< <<titleKey, JStr(<<>>)>>, <<versionKey, JStr(<<"1">>)>> >>),
    JObj(<< <<titleKey, JStr(<<"a", "\t", "\"", "u0008", "u001f", "\r", "b">>)>>,
            <<versionKey, JStr(<<"1">>)>> >>),
    JObj(<< <<titleKey, JStr(<<"X">>)>> >>),
    JObj(<< <<titleKey, JNum(7)>>, <<versionKey, JStr(<<"1">>)>> >>),
    JNull }

PathsValues ==
  { Undefined,
    JObj(<<>>),
    JObj(<< <<<<"/", "p", "o", "s", "t", "s">>, JObj(<< <<<<"g", "e", "t">>, JObj(<< <<<<"s", "u", "m", "m", "a", "r", "y">>, JStr(<<"s">>)>> >>)>> >>)>> >>),
    JObj(<< <<<<"/", "a">>, JNull>>, <<<<"/", "b">>, JNum(1)>> >>),
    JObj(<< <<<<"/", "a", "\"", "\\", "b">>, JObj(<<>>)>> >>),
    JObj(<< <<protoKey, JObj(<< <<<<"x">>, JNum(1)>> >>)>>, <<<<"/", "a">>, JNum(2)>> >>),
    JArr(<<>>) }

ComponentsValues ==
  { Undefined,
    JObj(<<>>),
    JObj(<< <<schemasKey, JObj(<<>>)>> >>),
    JObj(<< <<schemasKey, JObj(<< <<<<"P", "o", "s", "t">>, JObj(<< <<<<"t", "y", "p", "e">>, JStr(<<"o">>)>> >>)>> >>)>>,
            <<<<"s", "e", "c", "u", "r", "i", "t", "y", "S", "c", "h", "e", "m", "e", "s">>, JObj(<<>>)>> >>),
    JObj(<< <<schemasKey, JObj(<< <<protoKey, JObj(<<>>)>>, <<<<"A">>, JObj(<<>>)>> >>)>> >>),
    JObj(<< <<schemasKey, JStr(<<"x">>)>> >>),
    JArr(<<>>),
    JNull }

\* How the top-level keys are laid out: in the schema's order, in the
\* schema's order followed by a servers key, or in the opposite order.
Layouts == {"plain", "servers", "reversed"}

Reverse(s) == [i \in 1..Len(s) |-> s[Len(s) + 1 - i]]

\* The object with the given top-level values; a key whose value is
\* Undefined is absent.
MakeDoc(o, i, p, c, layout) ==
  LET all == << <<openapiKey, o>>, <<infoKey, i>>, <<pathsKey, p>>, <<componentsKey, c>> >>
      present == SelectSeq(all, LAMBDA kv : kv[2].t # "undefined")
  IN CASE layout = "plain" -> JObj(present)
       [] layout = "servers" ->
            JObj(present \o << <<<<"s", "e", "r", "v", "e", "r", "s">>, JArr(<< JObj(<< <<<<"u", "r", "l">>, JStr(<<"u">>)>> >>) >>)>> >>)
       [] layout = "reversed" -> JObj(Reverse(present))

ObjectDocs ==
  { MakeDoc(o, i, p, c, l) :
      o \in OpenapiValues, i \in InfoValues, p \in PathsValues, c \in ComponentsValues,
      l \in Layouts }

\* JSON bodies that are no object.
NonObjectDocs == { JNull, JArr(<<>>), JStr(<<"x">>) }

\* A request body: text that parses to a JSON value, or text that does not,
\* kept as its characters.
JsonBody(doc) == [json |-> TRUE, doc |-> doc]
MalformedBody(text) == [json |-> FALSE, doc |-> [t |-> "text", v |-> text]]

\* The body of a request that sends none: the empty text.
EmptyBody == MalformedBody(<<>>)

\* Body texts that are not JSON.
MalformedTexts ==
  { <<>>, <<"{">>, <<"x", "x">>, <<"u", "n", "d", "e", "f", "i", "n", "e", "d">> }

\* The message of the SyntaxError JSON.parse throws on each of them (V8, as
\* in Node.js 20).
JsonParseMessage(text) ==
  CASE text = <<>> -> "Unexpected end of JSON input"
    [] text = <<"{">> -> "Expected property name or '}' in JSON at position 1"
    [] text = <<"x", "x">> -> "Unexpected token 'x', \"xx\" is not valid JSON"
    [] text = <<"u", "n", "d", "e", "f", "i", "n", "e", "d">> -> "\"undefined\" is not valid JSON"

Bodies ==
  {MalformedBody(t) : t \in MalformedTexts} \cup {JsonBody(d) : d \in ObjectDocs \cup NonObjectDocs \cup {sampleSpec}}

\* The bodies of the concurrent specification.
ConcBodies ==
  { MalformedBody(<<"{">>),
    JsonBody(MakeDoc(JStr(Chars3_0_0),
                     JObj(<< <<titleKey, JStr(<<"B", "l", "o", "g">>)>>,
                             <<versionKey, JStr(<<"1", ".", "0", ".", "0">>)>> >>),
                     JObj(<<>>), Undefined, "plain")),
    JsonBody(MakeDoc(JStr(Chars3_0_0),
                     JObj(<< <<titleKey, JStr(<<"X">>)>>, <<versionKey, JStr(<<"1">>)>> >>),
                     JObj(<<>>), JObj(<<>>), "plain")),
    JsonBody(MakeDoc(JStr(<<"2", ".", "0">>),
                     JObj(<< <<titleKey, JStr(<<"X">>)>>, <<versionKey, JStr(<<"1">>)>> >>),
                     JObj(<<>>), Undefined, "plain")) }

Methods == {"GET", "POST"}
Paths == {"/", "/health", "/generate", "/sample-spec", "/test-api", "/missing"}

\* The requests of the sequential specification: every method and path, with
\* a body where the route reads one.
Inputs ==
  {<<m, p, EmptyBody>> : m \in Methods, p \in Paths}
    \cup {<<"POST", "/generate", b>> : b \in Bodies}

\* The requests of the concurrent specification.
ConcInputs == {<<"POST", "/generate", b>> : b \in ConcBodies}

\* The file paths a generated project may hold, and each file's text.
packageJson == <<"p", "a", "c", "k", "a", "g", "e", ".", "j", "s", "o", "n">>
srcIndexTs == <<"s", "r", "c", "/", "i", "n", "d", "e", "x", ".", "t", "s">>
readmeMd == <<"R", "E", "A", "D", "M", "E", ".", "m", "d">>
FileNames == {packageJson, srcIndexTs, readmeMd}
FileContent(name) ==
  CASE name = packageJson -> JStr(<<"{", "}">>)
    [] name = srcIndexTs -> JStr(<<"/", "/", " ", "e", "n", "t", "r", "y">>)
    [] name = readmeMd -> JStr(<<"#">>)

\* The objects generateObject may resolve with under the schema
\* z.record(z.string(), z.string()): distinct keys in the order produced.
KeyLists ==
  UNION { { s \in [1..n -> FileNames] : \A i, j \in 1..n : i # j => s[i] # s[j] } : n \in 0..MaxFiles }
GeneratedProjects ==
  { JObj([i \in 1..Len(s) |-> <<s[i], FileContent(s[i])>>]) : s \in KeyLists }

\* What generateObject may reject with: an authentication failure, an
\* upstream failure, an output that does not conform, a thrown non-Error.
GenerationErrors ==
  { Error("API key not valid"), Error("fetch failed"),
    Error("No object generated: response did not match schema."), NonError }

\* What c.req.json() rejects with on a body that is not JSON.
BodySyntaxError(text) == Error(JsonParseMessage(text))

\* --------------------------------------------------------------- state
Requests == 1..NumRequests

VARIABLES
  pc,           \* where each request is: idle, reading, awaiting, done, crashed
  req,          \* each request's method, path and body
  openapiSpec,  \* the handler's validated specification
  prompt,       \* the user prompt handed to generateObject
  calls,        \* how many times the request called generateObject
  outcome,      \* what the request's generateObject call settled with
  resp,         \* the response sent
  trace         \* the steps the handler took, in order

vars == <<pc, req, openapiSpec, prompt, calls, outcome, resp, trace>>

\* The settlement of a generateObject call: pending, resolved with an object,
\* or rejected with a thrown value.
Pending == [settled |-> "pending", object |-> Undefined, err |-> NonError]
Resolved(object) == [settled |-> "resolved", object |-> object, err |-> NonError]
Rejected(err) == [settled |-> "rejected", object |-> Undefined, err |-> err]

NoRequest == [method |-> "", path |-> "", body |-> EmptyBody]

Init ==
  /\ pc = [r \in Requests |-> "idle"]
  /\ req = [r \in Requests |-> NoRequest]
  /\ openapiSpec = [r \in Requests |-> Undefined]
  /\ prompt = [r \in Requests |-> <<>>]
  /\ calls = [r \in Requests |-> 0]
  /\ outcome = [r \in Requests |-> Pending]
  /\ resp = [r \in Requests |-> NoResponse]
  /\ trace = [r \in Requests |-> <<>>]

\* The request ends with what Hono makes of the handler's result.
Finish(r, result, steps) ==
  /\ resp' = [resp EXCEPT ![r] = Dispatch(result)]
  /\ pc' = [pc EXCEPT ![r] = IF Dispatch(result).status = -1 THEN "crashed" ELSE "done"]
  /\ trace' = [trace EXCEPT ![r] = @ \o steps \o
                 (IF Dispatch(result).status = -1 THEN <<"escaped">> ELSE <<"respond">>)]

\* A request arrives and is routed. POST /generate starts its handler, which
\* suspends on c.req.json(); a GET route answers at once; anything else is
\* answered by app.notFound. inputs: the <<method, path, body>> to draw from.
Receive(r, inputs) ==
  /\ pc[r] = "idle"
  /\ \E in \in inputs :
       /\ req' = [req EXCEPT ![r] = [method |-> in[1], path |-> in[2], body |-> in[3]]]
       /\ IF <<in[1], in[2]>> = <<"POST", "/generate">>
          THEN /\ pc' = [pc EXCEPT ![r] = "reading"]
               /\ UNCHANGED <<resp, trace>>
          ELSE IF <<in[1], in[2]>> \in Routes
          THEN Finish(r, GetHandler(in[2]), <<>>)
          ELSE Finish(r, Returned(notFound), <<>>)
  /\ UNCHANGED <<openapiSpec, prompt, calls, outcome>>

\* c.req.json() rejects: the catch block answers.
BodyRejected(r) ==
  /\ pc[r] = "reading"
  /\ ~req[r].body.json
  /\ Finish(r, CatchBlock(BodySyntaxError(req[r].body.doc.v)), <<"json_failed">>)
  /\ UNCHANGED <<req, openapiSpec, prompt, calls, outcome>>

\* The body parsed and the schema rejects it: 400 with the formatted issues.
ValidationFailed(r) ==
  /\ pc[r] = "reading"
  /\ req[r].body.json
  /\ ~openApiSchema(req[r].body.doc).ok
  /\ Finish(r, Returned(InvalidSpecResponse(openApiSchema(req[r].body.doc))),
            <<"json_ok", "validate_failed">>)
  /\ UNCHANGED <<req, openapiSpec, prompt, calls, outcome>>

\* The body parsed and the schema accepts it: the handler keeps the parsed
\* data, builds the prompt, calls generateObject and suspends on it.
ValidationPassed(r) ==
  /\ pc[r] = "reading"
  /\ req[r].body.json
  /\ openApiSchema(req[r].body.doc).ok
  /\ openapiSpec' = [openapiSpec EXCEPT ![r] = openApiSchema(req[r].body.doc).data]
  /\ prompt' = [prompt EXCEPT ![r] = UserPrompt(openApiSchema(req[r].body.doc).data)]
  /\ calls' = [calls EXCEPT ![r] = @ + 1]
  /\ trace' = [trace EXCEPT ![r] = @ \o <<"json_ok", "validate_ok", "prompt", "call">>]
  /\ pc' = [pc EXCEPT ![r] = "awaiting"]
  /\ UNCHANGED <<req, resp, outcome>>

\* Variant: the validated specification is kept in one place for all requests.
GenerateResolvesSharedSpec(r, generatedFiles) ==
  /\ pc[r] = "awaiting"
  /\ Finish(r, Returned(SuccessResponse(
                 openapiSpec[CHOOSE q \in Requests : pc[q] = "awaiting"], generatedFiles)),
            <<"call_returned", "assemble">>)
  /\ outcome' = [outcome EXCEPT ![r] = Resolved(generatedFiles)]
  /\ UNCHANGED <<req, openapiSpec, prompt, calls>>
\* generateObject resolves: the success envelope is assembled and sent.
GenerateResolves(r, generatedFiles) ==
  /\ pc[r] = "awaiting"
  /\ Finish(r, Returned(SuccessResponse(openapiSpec[r], generatedFiles)),
            <<"call_returned", "assemble">>)
  /\ outcome' = [outcome EXCEPT ![r] = Resolved(generatedFiles)]
  /\ UNCHANGED <<req, openapiSpec, prompt, calls>>

\* Variant: a failed call is tried once more.
GenerateRejectsRetry(r, err) ==
  /\ pc[r] = "awaiting"
  /\ IF calls[r] < 2
     THEN /\ calls' = [calls EXCEPT ![r] = @ + 1]
          /\ trace' = [trace EXCEPT ![r] = @ \o <<"call_failed", "call">>]
          /\ UNCHANGED <<pc, resp, outcome>>
     ELSE /\ Finish(r, CatchBlock(err), <<"call_failed">>)
          /\ outcome' = [outcome EXCEPT ![r] = Rejected(err)]
          /\ UNCHANGED calls
  /\ UNCHANGED <<req, openapiSpec, prompt>>
\* generateObject rejects: the catch block answers, the call is not retried.
GenerateRejects(r, err) ==
  /\ pc[r] = "awaiting"
  /\ Finish(r, CatchBlock(err), <<"call_failed">>)
  /\ outcome' = [outcome EXCEPT ![r] = Rejected(err)]
  /\ UNCHANGED <<req, openapiSpec, prompt, calls>>

\* One request at a time, over every method, path and body.
Next ==
  \/ Receive(1, Inputs)
  \/ BodyRejected(1)
  \/ ValidationFailed(1)
  \/ ValidationPassed(1)
  \/ \E generatedFiles \in GeneratedProjects : GenerateResolves(1, generatedFiles)
  \/ \E err \in GenerationErrors : GenerateRejects(1, err)

Spec == Init /\ [][Next]_vars

\* Several POST /generate requests in flight at once, their steps interleaved.
ConcNext ==
  \E r \in Requests :
    \/ Receive(r, ConcInputs)
    \/ BodyRejected(r)
    \/ ValidationFailed(r)
    \/ ValidationPassed(r)
    \/ \E generatedFiles \in GeneratedProjects : GenerateResolves(r, generatedFiles)
    \/ \E err \in GenerationErrors : GenerateRejects(r, err)

ConcSpec == Init /\ [][ConcNext]_vars

\* ------------------------------------------------------------ properties
IsGenerate(r) == req[r].method = "POST" /\ req[r].path = "/generate"

\* The JSON document of a request whose body parsed.
HasDoc(r) == IsGenerate(r) /\ req[r].body.json
DocOf(r) == req[r].body.doc

\* The handler is past its validation step.
PastValidation(r) == pc[r] \in {"awaiting", "done"}

Count(s, e) == Cardinality({i \in 1..Len(s) : s[i] = e})

\* openapi is missing, is no string, or does not match the pattern.
OpenapiUnacceptable(doc) ==
  LET o == Get(doc, openapiKey) IN o.t # "string" \/ ~VersionRegex(o.v)

\* The response is a 400 whose details name the field with a message.
FieldError(r, field) ==
  /\ resp[r].status = 400
  /\ "details" \in DOMAIN resp[r].body
  /\ HasKey(resp[r].body.details, field)
  /\ Get(Get(resp[r].body.details, field), errorsKey) # <<>>

\* C1 as stated: every document whose openapi is missing, not a string or
\* not matching ^3\.\d+\.\d+$ is answered 400 with a field-level entry for
\* openapi, and generateObject is not called.
C1_OpenapiFieldErrorForEveryDocument ==
  \A r \in Requests :
    (HasDoc(r) /\ PastValidation(r) /\ OpenapiUnacceptable(DocOf(r)))
      => (FieldError(r, openapiKey) /\ calls[r] = 0)

\* C1 amended: every JSON object whose openapi is missing, not a string or
\* not matching ^3\.\d+\.\d+$ is answered 400 with a field-level entry for
\* openapi; a JSON body that is no object is answered 400 with a root-level
\* message and no entry for openapi; generateObject is called in neither case.
C1_OpenapiFieldErrorForObjects ==
  \A r \in Requests :
    (HasDoc(r) /\ PastValidation(r) /\ OpenapiUnacceptable(DocOf(r)))
      => /\ calls[r] = 0
         /\ resp[r].status = 400
         /\ IF DocOf(r).t = "object"
            THEN FieldError(r, openapiKey)
            ELSE /\ Get(resp[r].body.details, errorsKey) # <<>>
                 /\ ~HasKey(resp[r].body.details, openapiKey)

\* An object with openapi "4.0.0" and one with openapi "2.0" were answered.
C1_Witness ==
  \E r \in Requests :
    /\ HasDoc(r) /\ pc[r] = "done" /\ DocOf(r).t = "object"
    /\ Get(DocOf(r), openapiKey) \in {JStr(<<"4", ".", "0", ".", "0">>), JStr(<<"2", ".", "0">>)}
    /\ FieldError(r, openapiKey)

\* openapi is "3.0.0", info.title and info.version are strings, paths is a
\* mapping.
MinimalShape(doc) ==
  /\ doc.t = "object"
  /\ Get(doc, openapiKey) = JStr(Chars3_0_0)
  /\ Get(doc, infoKey).t = "object"
  /\ Get(Get(doc, infoKey), titleKey).t = "string"
  /\ Get(Get(doc, infoKey), versionKey).t = "string"
  /\ Get(doc, pathsKey).t = "object"

\* components is absent, or an object whose schemas is absent or a mapping.
ComponentsWellFormed(doc) ==
  LET c == Get(doc, componentsKey)
  IN c.t = "undefined" \/ (c.t = "object" /\ Get(c, schemasKey).t \in {"undefined", "object"})

\* The request was not answered 400 and went on to the generation step.
Accepted(r) == resp[r].status # 400 /\ calls[r] = 1 /\ Count(trace[r], "call") = 1

\* C2 as stated: every document with openapi "3.0.0", string info.title and
\* info.version and a paths mapping is accepted, whatever paths holds and
\* whether or not components is present.
C2_MinimalShapeAccepted ==
  \A r \in Requests :
    (HasDoc(r) /\ PastValidation(r) /\ MinimalShape(DocOf(r))) => Accepted(r)

\* C2 amended: every such document whose components is absent, or an object
\* whose schemas is absent or a mapping, is accepted, whatever paths holds.
C2_MinimalShapeAcceptedWithComponentsWellFormed ==
  \A r \in Requests :
    (HasDoc(r) /\ PastValidation(r) /\ MinimalShape(DocOf(r)) /\ ComponentsWellFormed(DocOf(r)))
      => Accepted(r)

\* A document with the empty paths mapping and a components key went on to
\* the generation step.
C2_Witness ==
  \E r \in Requests :
    /\ HasDoc(r) /\ pc[r] = "awaiting" /\ MinimalShape(DocOf(r))
    /\ Get(DocOf(r), pathsKey) = JObj(<<>>)
    /\ HasKey(DocOf(r), componentsKey)
    /\ calls[r] = 1

\* C3: in every 200 response of POST /generate, metadata.fileCount is the
\* number of keys of files, metadata.files lists exactly those keys, without
\* duplicates, in the order generateObject produced them, and apiTitle and
\* apiVersion are the request's info.title and info.version.
C3_MetadataMatchesFiles ==
  \A r \in Requests :
    (IsGenerate(r) /\ resp[r].status = 200)
      => LET m == resp[r].body.metadata
             files == resp[r].body.files
         IN /\ files = outcome[r].object
            /\ m.fileCount = Len(files.v)
            /\ Len(m.files) = Len(files.v)
            /\ \A i \in 1..Len(files.v) : m.files[i] = outcome[r].object.v[i][1]
            /\ \A i, j \in 1..Len(m.files) : i # j => m.files[i] # m.files[j]
            /\ m.apiTitle = Get(Get(DocOf(r), infoKey), titleKey)
            /\ m.apiVersion = Get(Get(DocOf(r), infoKey), versionKey)

\* A project of two files was returned, its keys not in alphabetical order.
C3_Witness ==
  \E r \in Requests :
    /\ IsGenerate(r) /\ resp[r].status = 200
    /\ resp[r].body.metadata.files = <<srcIndexTs, packageJson>>

\* C4: whenever the generateObject call fails, the response has status 500,
\* an error field and a timestamp, and neither a files key nor success: true.
C4_GenerationFailureIsServerError ==
  \A r \in Requests :
    (outcome[r].settled = "rejected" /\ pc[r] # "awaiting")
      => /\ pc[r] = "done"
         /\ resp[r].status = 500
         /\ "error" \in DOMAIN resp[r].body
         /\ "timestamp" \in DOMAIN resp[r].body
         /\ "files" \notin DOMAIN resp[r].body
         /\ "success" \notin DOMAIN resp[r].body

\* A call rejected with an authentication Error, and one with a non-Error.
C4_Witness ==
  \E r \in Requests :
    /\ pc[r] = "done"
    /\ outcome[r] \in {Rejected(Error("API key not valid")), Rejected(NonError)}
    /\ resp[r].status = 500

\* C5 as stated: the specification the pipeline uses and embeds in the user
\* prompt is the submitted document, nothing added, removed or defaulted, and
\* its pretty-printed JSON is that of the input.
C5_EmbeddedSpecIsTheInput ==
  \A r \in Requests :
    (HasDoc(r) /\ calls[r] >= 1)
      => /\ openapiSpec[r] = DocOf(r)
         /\ EmbeddedSpec(prompt[r]) = Stringify(DocOf(r), 0)

\* C6 as stated: the document GET /sample-spec returns, submitted to
\* POST /generate, is accepted and the validated value equals it.
C6_SampleSpecValidatesUnchanged ==
  \A r \in Requests :
    (HasDoc(r) /\ PastValidation(r) /\ DocOf(r) = GetHandler("/sample-spec").response.body)
      => /\ resp[r].status # 400
         /\ calls[r] = 1
         /\ openapiSpec[r] = DocOf(r)

\* C7: no fault escapes POST /generate: whatever step raises, the request
\* ends with exactly one response, of status 200, 400 or 500, and every 500
\* carries error and timestamp.
C7_NoFaultEscapes ==
  \A r \in Requests :
    /\ pc[r] # "crashed"
    /\ Count(trace[r], "escaped") = 0
    /\ (IsGenerate(r) /\ pc[r] = "done")
         => /\ Count(trace[r], "respond") = 1
            /\ resp[r].status \in {200, 400, 500}
            /\ resp[r].status = 500
                 => {"error", "timestamp"} \subseteq DOMAIN resp[r].body
    /\ (IsGenerate(r) /\ pc[r] \in {"reading", "awaiting"}) => Count(trace[r], "respond") = 0

\* The body did not parse, or the call threw a value that is no Error, and
\* the request was answered 500.
C7_Witness ==
  \E r \in Requests :
    /\ IsGenerate(r) /\ pc[r] = "done" /\ resp[r].status = 500
    /\ \/ ~req[r].body.json
       \/ outcome[r] = Rejected(NonError)

\* C8 as stated: GET /test-api is a served route, not answered by the
\* unmatched-route handler with {error: 'Route not found'} and status 404.
C8_TestApiIsServed ==
  \A r \in Requests :
    (pc[r] = "done" /\ req[r].method = "GET" /\ req[r].path = "/test-api")
      => ~(resp[r].status = 404 /\ resp[r].body = notFound.body)

\* Every position of event e in s comes after a position of an event of es.
Preceded(s, e, es) ==
  \A i \in 1..Len(s) : s[i] = e => \E j \in 1..(i - 1) : s[j] \in es

\* The steps run in the order validation, prompt, call, assembly, with at
\* most one call and the call only after validation succeeded.
LinearSteps(r) ==
  /\ calls[r] <= 1
  /\ Count(trace[r], "call") = calls[r]
  /\ Count(trace[r], "validate_ok") + Count(trace[r], "validate_failed") <= 1
  /\ Preceded(trace[r], "prompt", {"validate_ok"})
  /\ Preceded(trace[r], "call", {"prompt"})
  /\ Preceded(trace[r], "call_returned", {"call"})
  /\ Preceded(trace[r], "call_failed", {"call"})
  /\ Preceded(trace[r], "assemble", {"call_returned"})
  /\ Count(trace[r], "validate_failed") = 1 => calls[r] = 0

\* C9 as stated: the steps run in order, generateObject is called at most
\* once and only after validation succeeded, and a response is sent only
\* after validation failed or the call returned or failed.
C9_ResponseOnlyAfterValidationOrCall ==
  \A r \in Requests :
    IsGenerate(r)
      => /\ LinearSteps(r)
         /\ Preceded(trace[r], "respond", {"validate_failed", "call_returned", "call_failed"})

\* C9 amended: the steps run in order, generateObject is called at most once
\* and only after validation succeeded, and a response is sent only after
\* reading the request body failed, validation failed, or the call returned
\* or failed.
C9_ResponseOnlyAfterBodyValidationOrCall ==
  \A r \in Requests :
    IsGenerate(r)
      => /\ LinearSteps(r)
         /\ Preceded(trace[r], "respond",
                     {"json_failed", "validate_failed", "call_returned", "call_failed"})

\* A call failed and the request was answered without a second call.
C9_Witness ==
  \E r \in Requests :
    /\ IsGenerate(r) /\ pc[r] = "done"
    /\ trace[r] = <<"json_ok", "validate_ok", "prompt", "call", "call_failed", "respond">>

\* The response the handler owes a request, from the request's own body and
\* its own call outcome.
OwnResponse(body, out) ==
  IF ~body.json THEN CatchBlock(BodySyntaxError(body.doc.v)).response
  ELSE IF ~openApiSchema(body.doc).ok THEN InvalidSpecResponse(openApiSchema(body.doc))
  ELSE IF out.settled = "resolved"
       THEN SuccessResponse(openApiSchema(body.doc).data, out.object)
       ELSE CatchBlock(out.err).response

\* C10: with several POST /generate requests in flight, every response is
\* determined by that request's own document and its own call outcome: its
\* apiTitle, apiVersion and files are its own, whatever the other requests
\* did, failures included.
C10_RequestsIndependent ==
  \A r \in Requests :
    pc[r] = "done"
      => /\ resp[r] = OwnResponse(req[r].body, outcome[r])
         /\ resp[r].status = 200
              => /\ resp[r].body.metadata.apiTitle = Get(Get(DocOf(r), infoKey), titleKey)
                 /\ resp[r].body.metadata.apiVersion = Get(Get(DocOf(r), infoKey), versionKey)
                 /\ resp[r].body.files = outcome[r].object

\* One request was answered 200 while another, for a different document, was
\* still suspended at its call.
C10_Witness ==
  \E r, q \in Requests :
    /\ r # q
    /\ pc[r] = "done" /\ resp[r].status = 200
    /\ pc[q] = "awaiting"
    /\ openapiSpec[q] # openapiSpec[r]
====

